---- MODULE Spec2Model ----
(***************************************************************************)
(* Model of dev/perf/visualize_performance.py: the benchmark visualisation *)
(* pipeline  main -> load_data -> create_cpu_comparison ->                 *)
(* create_memory_comparison -> create_performance_summary ->               *)
(* create_detailed_report.                                                 *)
(*                                                                         *)
(* Numbers: the metrics of a sample are integers and every mean is the     *)
(* exact rational [num, den]; [num |-> 0, den |-> 0] is NaN (the mean of   *)
(* an empty selection).  Comparisons with NaN are false, as in IEEE 754.   *)
(***************************************************************************)
EXTENDS Integers, Sequences, FiniteSets, TLC

\* Longest table read from the CSV file.
MaxLen == 3

\* Values the columns of the CSV file are drawn from.
Scenarios == {"cold", "warm"}
ToolLabels == {"wake", "stern", "other"}
Measurements == {<<1, 5>>, <<2, 20>>, <<2, 5>>}

\* The literal ['wake', 'stern'] every per-tool loop iterates over.
KnownTools == <<"wake", "stern">>

\* The four output files, in the order main produces them.
Artifacts ==
  <<"cpu_comparison.png", "memory_comparison.png",
    "performance_summary.png", "detailed_analysis.md">>

Samples ==
  {[scenario |-> s, tool |-> l, cpu_percent |-> m[1], memory_mb |-> m[2]] :
     s \in Scenarios, l \in ToolLabels, m \in Measurements}

Tables == UNION {[1..n -> Samples] : n \in 0..MaxLen}

VARIABLES
  pc,            \* position of main
  csv,           \* the file at args.csv_file: "missing", "malformed" or "ok"
  dir_exists,    \* the output directory exists
  made_dir,      \* os.makedirs created the output directory in this run
  files,         \* output files created by this run, in creation order
  exit_status,   \* the process's exit status, meaningful once pc = "exited"
  failed,        \* the step that ended the run with an error, "" if none
  df,            \* the loaded table
  cpu_chart,     \* what create_cpu_comparison drew
  mem_chart,     \* what create_memory_comparison drew
  summary_data,  \* the rows built by create_performance_summary
  report         \* the content written by create_detailed_report

vars ==
  <<pc, csv, dir_exists, made_dir, files, exit_status, failed, df,
    cpu_chart, mem_chart, summary_data, report>>

-----------------------------------------------------------------------------
(* Rational arithmetic standing for the float arithmetic of the script.    *)

NaN == [num |-> 0, den |-> 0]

Rat(n) == [num |-> n, den |-> 1]

IsNaN(a) == a.den = 0

RatAdd(a, b) ==
  IF IsNaN(a) \/ IsNaN(b) THEN NaN
  ELSE [num |-> a.num * b.den + b.num * a.den, den |-> a.den * b.den]

RatSub(a, b) ==
  IF IsNaN(a) \/ IsNaN(b) THEN NaN
  ELSE [num |-> a.num * b.den - b.num * a.den, den |-> a.den * b.den]

\* a / b; x / 0 is nan or inf for numpy floats, both folded into NaN.
RatDiv(a, b) ==
  IF IsNaN(a) \/ IsNaN(b) \/ b.num = 0 THEN NaN
  ELSE [num |-> a.num * b.den, den |-> a.den * b.num]

RatMul(a, b) ==
  IF IsNaN(a) \/ IsNaN(b) THEN NaN
  ELSE [num |-> a.num * b.num, den |-> a.den * b.den]

\* a < b on floats: false when either side is NaN.
RatLt(a, b) ==
  /\ ~IsNaN(a)
  /\ ~IsNaN(b)
  /\ a.num * b.den < b.num * a.den

\* n / d rounded to an integer as float formatting rounds.  A mean of integers
\* over fewer than 8 rows is never exactly halfway between two hundredths, so
\* the tie rule is not exercised by the tables of this model.
RoundHalfEven(n, d) ==
  LET q == n \div d
      r == n % d
  IN  IF 2 * r < d THEN q
      ELSE IF 2 * r > d THEN q + 1
      ELSE IF q % 2 = 0 THEN q ELSE q + 1

\* f"{x:.2f}" (scale 100) and f"{x:.1f}" (scale 10): the number of units of
\* 1/scale printed, or "nan".  Only non-negative values are ever formatted.
Fmt(x, scale) ==
  IF IsNaN(x) THEN [nan |-> TRUE, units |-> 0]
  ELSE [nan |-> FALSE, units |-> RoundHalfEven(x.num * scale, x.den)]

\* str.title() on the labels the model uses.
Title(s) ==
  CASE s = "wake" -> "Wake"
    [] s = "stern" -> "Stern"
    [] s = "cold" -> "Cold"
    [] s = "warm" -> "Warm"
    [] OTHER -> s

-----------------------------------------------------------------------------
(* pandas operations on the table.                                         *)

\* df[c]
Column(t, c) == [i \in 1..Len(t) |-> t[i][c]]

\* Series.unique(): the distinct values in order of first appearance.
RECURSIVE unique(_)
unique(s) ==
  IF s = <<>> THEN <<>>
  ELSE LET r == unique(SubSeq(s, 1, Len(s) - 1))
           x == s[Len(s)]
       IN  IF \E i \in 1..Len(r) : r[i] = x THEN r ELSE Append(r, x)

RECURSIVE Sum(_)
Sum(s) == IF s = <<>> THEN 0 ELSE s[1] + Sum(Tail(s))

\* Series.mean(): NaN on an empty selection.
mean(s) == [num |-> Sum(s), den |-> Len(s)]

\* Series.max(), used on non-empty selections only.
RECURSIVE max(_)
max(s) ==
  IF Len(s) = 1 THEN s[1]
  ELSE LET m == max(Tail(s)) IN IF s[1] > m THEN s[1] ELSE m

\* df[df['scenario'] == scenario]
WhereScenario(t, scenario) == SelectSeq(t, LAMBDA r : r.scenario = scenario)

\* df[df['tool'] == tool]
WhereTool(t, tool) == SelectSeq(t, LAMBDA r : r.tool = tool)

\* Mutant: the scenario half of the mask forgotten.
WhereScenarioAndTool_tool_only(t, scenario, tool) ==
  SelectSeq(t, LAMBDA r : r.tool = tool)

\* df[(df['scenario'] == scenario) & (df['tool'] == tool)]
WhereScenarioAndTool(t, scenario, tool) ==
  SelectSeq(t, LAMBDA r : r.scenario = scenario /\ r.tool = tool)

-----------------------------------------------------------------------------
(* main: the existence check, the output directory and the load.           *)

Init ==
  /\ pc = "start"
  /\ csv \in {"missing", "malformed", "ok"}
  /\ dir_exists \in BOOLEAN
  /\ made_dir = FALSE
  /\ files = <<>>
  /\ exit_status = 0
  /\ failed = ""
  /\ df = <<>>
  /\ cpu_chart = <<>>
  /\ mem_chart = <<>>
  /\ summary_data = <<>>
  /\ report = <<>>

\* sys.exit(1), or an exception nobody catches: the interpreter exits with 1.
Abort(step) ==
  /\ pc' = "exited"
  /\ exit_status' = 1
  /\ failed' = step

\* Mutant: the existence check placed after os.makedirs.
main_csv_not_found_after_makedirs ==
  /\ pc = "start"
  /\ csv = "missing"
  /\ dir_exists' = TRUE
  /\ made_dir' = ~dir_exists
  /\ Abort("exists")
  /\ UNCHANGED <<csv, files, df, cpu_chart, mem_chart, summary_data, report>>

\* if not os.path.exists(args.csv_file): ... sys.exit(1)
main_csv_not_found ==
  /\ pc = "start"
  /\ csv = "missing"
  /\ Abort("exists")
  /\ UNCHANGED <<csv, dir_exists, made_dir, files, df, cpu_chart, mem_chart,
                 summary_data, report>>

main_csv_found ==
  /\ pc = "start"
  /\ csv # "missing"
  /\ pc' = "makedirs"
  /\ UNCHANGED <<csv, dir_exists, made_dir, files, exit_status, failed, df,
                 cpu_chart, mem_chart, summary_data, report>>

\* os.makedirs(output_dir, exist_ok=True)
main_makedirs ==
  /\ pc = "makedirs"
  /\ dir_exists' = TRUE
  /\ made_dir' = ~dir_exists
  /\ pc' = "load"
  /\ UNCHANGED <<csv, files, exit_status, failed, df, cpu_chart, mem_chart,
                 summary_data, report>>

\* os.makedirs raises (the directory is absent and cannot be created).
main_makedirs_fail ==
  /\ pc = "makedirs"
  /\ ~dir_exists
  /\ Abort("makedirs")
  /\ UNCHANGED <<csv, dir_exists, made_dir, files, df, cpu_chart, mem_chart,
                 summary_data, report>>

\* load_data returns the table.
load_data ==
  /\ pc = "load"
  /\ csv = "ok"
  /\ \E t \in Tables : df' = t
  /\ pc' = "cpu"
  /\ UNCHANGED <<csv, dir_exists, made_dir, files, exit_status, failed,
                 cpu_chart, mem_chart, summary_data, report>>

\* load_data: read_csv or to_datetime raises; except Exception: sys.exit(1)
load_data_error ==
  /\ pc = "load"
  /\ csv = "malformed"
  /\ Abort("load")
  /\ UNCHANGED <<csv, dir_exists, made_dir, files, df, cpu_chart, mem_chart,
                 summary_data, report>>

-----------------------------------------------------------------------------
(* create_cpu_comparison and create_memory_comparison.                     *)

\* The keys of df.groupby(['scenario', 'tool']): every pair some row carries.
GroupKeys(t) == {<<t[i].scenario, t[i].tool>> : i \in 1..Len(t)}

\* df.groupby(['scenario', 'tool'])[col].mean()
groupby_mean(t, col) ==
  [k \in GroupKeys(t) |->
     mean(Column(WhereScenarioAndTool(t, k[1], k[2]), col))]

\* df.groupby(['scenario', 'tool'])[col].max()
groupby_max(t, col) ==
  [k \in GroupKeys(t) |->
     Rat(max(Column(WhereScenarioAndTool(t, k[1], k[2]), col)))]

\* .unstack(): scenarios as index, tools as columns, NaN where a pair is absent.
unstack(g) ==
  LET index == {k[1] : k \in DOMAIN g}
      columns == {k[2] : k \in DOMAIN g}
  IN  [k \in index \X columns |-> IF k \in DOMAIN g THEN g[k] ELSE NaN]

\* The inner loop of plot 1: one line per known tool with rows in the scenario.
ScenarioLines(t, scenario, col) ==
  LET scenario_data == WhereScenario(t, scenario)
      Line(tool) ==
        LET tool_data == WhereTool(scenario_data, tool)
        IN  IF tool_data # <<>>
            THEN << [label |-> <<Title(tool), scenario>>,
                     y |-> Column(tool_data, col)] >>
            ELSE <<>>
  IN  Line(KnownTools[1]) \o Line(KnownTools[2])

\* The outer loop of plot 1, over df['scenario'].unique().
RECURSIVE TimeSeries(_, _, _)
TimeSeries(t, scenarios, col) ==
  IF scenarios = <<>> THEN <<>>
  ELSE ScenarioLines(t, Head(scenarios), col)
         \o TimeSeries(t, Tail(scenarios), col)

\* sns.boxplot(data=df, x='scenario', y=col, hue='tool'): one box per pair.
boxplot(t, col) ==
  [k \in GroupKeys(t) |-> Column(WhereScenarioAndTool(t, k[1], k[2]), col)]

\* The four panels of a comparison chart for one metric.
Chart(t, col) ==
  [lines |-> TimeSeries(t, unique(Column(t, "scenario")), col),
   avg |-> unstack(groupby_mean(t, col)),
   max |-> unstack(groupby_max(t, col)),
   box |-> boxplot(t, col)]

\* DataFrame.plot(kind='bar') raises on a frame without columns, which is what
\* the groupby of an empty table gives; otherwise the chart is saved.
create_cpu_comparison ==
  /\ pc = "cpu"
  /\ df # <<>>
  /\ cpu_chart' = Chart(df, "cpu_percent")
  /\ files' = Append(files, Artifacts[1])
  /\ pc' = "mem"
  /\ UNCHANGED <<csv, dir_exists, made_dir, exit_status, failed, df,
                 mem_chart, summary_data, report>>

\* Rendering or plt.savefig raises: the exception leaves main.
create_cpu_comparison_error ==
  /\ pc = "cpu"
  /\ Abort("cpu")
  /\ UNCHANGED <<csv, dir_exists, made_dir, files, df, cpu_chart, mem_chart,
                 summary_data, report>>

create_memory_comparison ==
  /\ pc = "mem"
  /\ mem_chart' = Chart(df, "memory_mb")
  /\ files' = Append(files, Artifacts[2])
  /\ pc' = "summary"
  /\ UNCHANGED <<csv, dir_exists, made_dir, exit_status, failed, df,
                 cpu_chart, summary_data, report>>

\* Mutant: the failure is swallowed and main goes on to the next chart.
create_memory_comparison_error_swallowed ==
  /\ pc = "mem"
  /\ pc' = "summary"
  /\ UNCHANGED <<csv, dir_exists, made_dir, files, exit_status, failed, df,
                 cpu_chart, mem_chart, summary_data, report>>

create_memory_comparison_error ==
  /\ pc = "mem"
  /\ Abort("mem")
  /\ UNCHANGED <<csv, dir_exists, made_dir, files, df, cpu_chart, mem_chart,
                 summary_data, report>>

-----------------------------------------------------------------------------
(* create_performance_summary.                                             *)

\* Mutant: the memory term not scaled down.
performance_score_unweighted(avg_cpu, avg_memory) == RatAdd(avg_cpu, avg_memory)

\* 'performance_score': (avg_cpu + avg_memory/10)
performance_score(avg_cpu, avg_memory) ==
  RatAdd(avg_cpu, RatDiv(avg_memory, Rat(10)))

\* The body of the inner loop: the row appended for one (scenario, tool).
SummaryRow(t, scenario, tool) ==
  LET tool_data == WhereScenarioAndTool(t, scenario, tool)
      avg_cpu == mean(Column(tool_data, "cpu_percent"))
      avg_memory == mean(Column(tool_data, "memory_mb"))
  IN  IF tool_data # <<>>
      THEN << [scenario |-> scenario,
               tool |-> tool,
               avg_cpu |-> avg_cpu,
               avg_memory |-> avg_memory,
               max_cpu |-> max(Column(tool_data, "cpu_percent")),
               max_memory |-> max(Column(tool_data, "memory_mb")),
               performance_score |-> performance_score(avg_cpu, avg_memory)] >>
      ELSE <<>>

\* Mutant: the tool loop run as ['stern', 'wake'].
SummaryRows_stern_first(t, scenario) ==
  SummaryRow(t, scenario, KnownTools[2]) \o SummaryRow(t, scenario, KnownTools[1])

\* for tool in ['wake', 'stern']
SummaryRows(t, scenario) ==
  SummaryRow(t, scenario, KnownTools[1]) \o SummaryRow(t, scenario, KnownTools[2])

\* for scenario in df['scenario'].unique()
RECURSIVE SummaryLoop(_, _)
SummaryLoop(t, scenarios) ==
  IF scenarios = <<>> THEN <<>>
  ELSE SummaryRows(t, Head(scenarios)) \o SummaryLoop(t, Tail(scenarios))

SummaryData(t) == SummaryLoop(t, unique(Column(t, "scenario")))

\* summary_df.pivot(index='scenario', ...) raises KeyError when summary_data is
\* empty (a frame without columns); otherwise the chart is saved.
create_performance_summary ==
  /\ pc = "summary"
  /\ SummaryData(df) # <<>>
  /\ summary_data' = SummaryData(df)
  /\ files' = Append(files, Artifacts[3])
  /\ pc' = "report"
  /\ UNCHANGED <<csv, dir_exists, made_dir, exit_status, failed, df,
                 cpu_chart, mem_chart, report>>

\* The rows are built, then pivot, rendering or plt.savefig raises.
create_performance_summary_error ==
  /\ pc = "summary"
  /\ summary_data' = SummaryData(df)
  /\ Abort("summary")
  /\ UNCHANGED <<csv, dir_exists, made_dir, files, df, cpu_chart, mem_chart,
                 report>>

-----------------------------------------------------------------------------
(* create_detailed_report.                                                 *)

\* One line of the "Overall Statistics" table, if the tool has rows.
OverallRow(t, tool) ==
  LET tool_data == WhereTool(t, tool)
  IN  IF tool_data # <<>>
      THEN << [tool |-> Title(tool),
               avg_cpu |-> Fmt(mean(Column(tool_data, "cpu_percent")), 100),
               max_cpu |-> Fmt(Rat(max(Column(tool_data, "cpu_percent"))), 100),
               avg_mem |-> Fmt(mean(Column(tool_data, "memory_mb")), 100),
               max_mem |-> Fmt(Rat(max(Column(tool_data, "memory_mb"))), 100)] >>
      ELSE <<>>

OverallStatistics(t) == OverallRow(t, KnownTools[1]) \o OverallRow(t, KnownTools[2])

\* Mutant: the tool's rows taken from the whole table, not from the scenario.
ScenarioRow_whole_table(t, scenario_data, tool) ==
  LET tool_data == WhereTool(t, tool)
  IN  IF tool_data # <<>>
      THEN << [tool |-> Title(tool),
               avg_cpu |-> Fmt(mean(Column(tool_data, "cpu_percent")), 100),
               max_cpu |-> Fmt(Rat(max(Column(tool_data, "cpu_percent"))), 100),
               avg_mem |-> Fmt(mean(Column(tool_data, "memory_mb")), 100),
               max_mem |-> Fmt(Rat(max(Column(tool_data, "memory_mb"))), 100),
               count |-> Len(tool_data)] >>
      ELSE <<>>

\* One line of a scenario's table, if the tool has rows in the scenario.
ScenarioRow(t, scenario_data, tool) ==
  LET tool_data == WhereTool(scenario_data, tool)
  IN  IF tool_data # <<>>
      THEN << [tool |-> Title(tool),
               avg_cpu |-> Fmt(mean(Column(tool_data, "cpu_percent")), 100),
               max_cpu |-> Fmt(Rat(max(Column(tool_data, "cpu_percent"))), 100),
               avg_mem |-> Fmt(mean(Column(tool_data, "memory_mb")), 100),
               max_mem |-> Fmt(Rat(max(Column(tool_data, "memory_mb"))), 100),
               count |-> Len(tool_data)] >>
      ELSE <<>>

\* "### {scenario.title()} Scenario" and its table.
ScenarioSection(t, scenario) ==
  LET scenario_data == WhereScenario(t, scenario)
  IN  [heading |-> Title(scenario),
       rows |-> ScenarioRow(t, scenario_data, KnownTools[1])
                  \o ScenarioRow(t, scenario_data, KnownTools[2])]

\* for scenario in df['scenario'].unique()
RECURSIVE ScenarioBreakdown(_, _)
ScenarioBreakdown(t, scenarios) ==
  IF scenarios = <<>> THEN <<>>
  ELSE <<ScenarioSection(t, Head(scenarios))>>
         \o ScenarioBreakdown(t, Tail(scenarios))

\* Mutant: the comparison written <=, so that a tie names Wake.
EfficiencyWinner_le(wake_avg, stern_avg) ==
  IF ~RatLt(stern_avg, wake_avg) /\ ~IsNaN(wake_avg) /\ ~IsNaN(stern_avg)
  THEN [winner |-> "Wake",
        improvement |->
          Fmt(RatMul(RatDiv(RatSub(stern_avg, wake_avg), stern_avg), Rat(100)), 10)]
  ELSE [winner |-> "Stern",
        improvement |->
          Fmt(RatMul(RatDiv(RatSub(wake_avg, stern_avg), wake_avg), Rat(100)), 10)]

\* if wake_avg < stern_avg: "Wake", (stern - wake) / stern * 100
\* else:                    "Stern", (wake - stern) / wake * 100
EfficiencyWinner(wake_avg, stern_avg) ==
  IF RatLt(wake_avg, stern_avg)
  THEN [winner |-> "Wake",
        improvement |->
          Fmt(RatMul(RatDiv(RatSub(stern_avg, wake_avg), stern_avg), Rat(100)), 10)]
  ELSE [winner |-> "Stern",
        improvement |->
          Fmt(RatMul(RatDiv(RatSub(wake_avg, stern_avg), wake_avg), Rat(100)), 10)]

\* df[df['tool'] == tool][col].mean(): NaN when the tool has no rows.
ToolAverage(t, tool, col) == mean(Column(WhereTool(t, tool), col))

\* Mutant: the total counted over the two known tools only.
DataQuality_known_only(t) ==
  [total |-> Len(WhereTool(t, "wake")) + Len(WhereTool(t, "stern")),
   wake |-> Len(WhereTool(t, "wake")),
   stern |-> Len(WhereTool(t, "stern")),
   scenarios |-> Len(unique(Column(t, "scenario")))]

\* The "Data Quality" section.
DataQuality(t) ==
  [total |-> Len(t),
   wake |-> Len(WhereTool(t, "wake")),
   stern |-> Len(WhereTool(t, "stern")),
   scenarios |-> Len(unique(Column(t, "scenario")))]

Report(t) ==
  [overall |-> OverallStatistics(t),
   breakdown |-> ScenarioBreakdown(t, unique(Column(t, "scenario"))),
   cpu |-> EfficiencyWinner(ToolAverage(t, "wake", "cpu_percent"),
                            ToolAverage(t, "stern", "cpu_percent")),
   memory |-> EfficiencyWinner(ToolAverage(t, "wake", "memory_mb"),
                               ToolAverage(t, "stern", "memory_mb")),
   quality |-> DataQuality(t)]

\* The report is written and closed.
create_detailed_report ==
  /\ pc = "report"
  /\ report' = Report(df)
  /\ files' = Append(files, Artifacts[4])
  /\ pc' = "finish"
  /\ UNCHANGED <<csv, dir_exists, made_dir, exit_status, failed, df,
                 cpu_chart, mem_chart, summary_data>>

\* open() raises and no file is made, or a write raises after open() made it.
create_detailed_report_error ==
  /\ pc = "report"
  /\ \E opened \in BOOLEAN :
       files' = IF opened THEN Append(files, Artifacts[4]) ELSE files
  /\ Abort("report")
  /\ UNCHANGED <<csv, dir_exists, made_dir, df, cpu_chart, mem_chart,
                 summary_data, report>>

\* The closing prints; main returns and the interpreter exits with 0.
main_finish ==
  /\ pc = "finish"
  /\ pc' = "exited"
  /\ exit_status' = 0
  /\ UNCHANGED <<csv, dir_exists, made_dir, files, failed, df, cpu_chart,
                 mem_chart, summary_data, report>>

Next ==
  \/ main_csv_not_found
  \/ main_csv_found
  \/ main_makedirs
  \/ main_makedirs_fail
  \/ load_data
  \/ load_data_error
  \/ create_cpu_comparison
  \/ create_cpu_comparison_error
  \/ create_memory_comparison
  \/ create_memory_comparison_error
  \/ create_performance_summary
  \/ create_performance_summary_error
  \/ create_detailed_report
  \/ create_detailed_report_error
  \/ main_finish

Spec == Init /\ [][Next]_vars

-----------------------------------------------------------------------------
(* Reference definitions for the properties: the samples a pair selects,   *)
(* as a set of positions of the table, and sums and maxima over such sets. *)

Known == {"wake", "stern"}

Matching(scenario, tool) ==
  {i \in 1..Len(df) : df[i].scenario = scenario /\ df[i].tool = tool}

OfTool(tool) == {i \in 1..Len(df) : df[i].tool = tool}

Unrecognized == {i \in 1..Len(df) : df[i].tool \notin Known}

ScenariosPresent == {df[i].scenario : i \in 1..Len(df)}

RECURSIVE SetSum(_, _)
SetSum(S, col) ==
  IF S = {} THEN 0
  ELSE LET i == CHOOSE i \in S : TRUE
       IN  df[i][col] + SetSum(S \ {i}, col)

SetMax(S, col) == CHOOSE m \in {df[i][col] : i \in S} : \A i \in S : df[i][col] <= m

\* The exact mean over a non-empty set of positions.
SetMean(S, col) == [num |-> SetSum(S, col), den |-> Cardinality(S)]

RatEq(a, b) == a.den # 0 /\ b.den # 0 /\ a.num * b.den = b.num * a.den

\* The position at which a scenario first appears in the table.
FirstSeen(scenario) ==
  CHOOSE i \in 1..Len(df) :
    /\ df[i].scenario = scenario
    /\ \A j \in 1..(i - 1) : df[j].scenario # scenario

\* The rank of a present scenario in first-seen order, from 1.
Rank(scenario) ==
  Cardinality({s \in ScenariosPresent : FirstSeen(s) <= FirstSeen(scenario)})

\* create_performance_summary has built summary_data.
SummaryBuilt ==
  \/ pc \in {"report", "finish"}
  \/ pc = "exited" /\ failed \in {"summary", "report", ""}

\* create_detailed_report has written the whole report.
ReportWritten ==
  \/ pc = "finish"
  \/ pc = "exited" /\ exit_status = 0

CpuChartDrawn == Len(files) >= 1

MemChartDrawn == Len(files) >= 2

-----------------------------------------------------------------------------
(* Properties.                                                             *)

\* C1: summary_data has exactly one row for each (scenario, tool) pair with
\* tool in {wake, stern} that has a matching sample in the table, no row for
\* a pair without one, and no row for any other tool.
C1_OneRowPerNonEmptyPair ==
  SummaryBuilt =>
    /\ \A k \in 1..Len(summary_data) : summary_data[k].tool \in Known
    /\ \A s \in Scenarios, l \in Known :
         Cardinality({k \in 1..Len(summary_data) :
                        summary_data[k].scenario = s /\ summary_data[k].tool = l})
           = IF Matching(s, l) # {} THEN 1 ELSE 0

C1_Witness ==
  /\ SummaryBuilt
  /\ Len(summary_data) = 2
  /\ \E s \in Scenarios, l \in Known : Cardinality(Matching(s, l)) = 2
  /\ \E s \in ScenariosPresent, l \in Known : Matching(s, l) = {}

\* C2 as stated: for each metric the tool the report names as winner has a
\* strictly lower overall average than the other tool, for every table.
C2_WinnerStrictlyLower ==
  ReportWritten =>
    /\ report.cpu.winner = "Wake" =>
         /\ OfTool("wake") # {} /\ OfTool("stern") # {}
         /\ SetSum(OfTool("wake"), "cpu_percent") * Cardinality(OfTool("stern"))
              < SetSum(OfTool("stern"), "cpu_percent") * Cardinality(OfTool("wake"))
    /\ report.cpu.winner = "Stern" =>
         /\ OfTool("wake") # {} /\ OfTool("stern") # {}
         /\ SetSum(OfTool("stern"), "cpu_percent") * Cardinality(OfTool("wake"))
              < SetSum(OfTool("wake"), "cpu_percent") * Cardinality(OfTool("stern"))
    /\ report.memory.winner = "Wake" =>
         /\ OfTool("wake") # {} /\ OfTool("stern") # {}
         /\ SetSum(OfTool("wake"), "memory_mb") * Cardinality(OfTool("stern"))
              < SetSum(OfTool("stern"), "memory_mb") * Cardinality(OfTool("wake"))
    /\ report.memory.winner = "Stern" =>
         /\ OfTool("wake") # {} /\ OfTool("stern") # {}
         /\ SetSum(OfTool("stern"), "memory_mb") * Cardinality(OfTool("wake"))
              < SetSum(OfTool("wake"), "memory_mb") * Cardinality(OfTool("stern"))

\* Wake's overall average of a metric is strictly lower than Stern's.
WakeStrictlyLower(col) ==
  /\ OfTool("wake") # {}
  /\ OfTool("stern") # {}
  /\ SetSum(OfTool("wake"), col) * Cardinality(OfTool("stern"))
       < SetSum(OfTool("stern"), col) * Cardinality(OfTool("wake"))

\* C2 amended: for each metric the report names Wake exactly when both tools
\* have rows and Wake's overall average is strictly lower than Stern's; in
\* every other case (Stern lower, equal averages, a tool without rows) it
\* names Stern.
C2_WakeWinsIffStrictlyLower ==
  ReportWritten =>
    /\ report.cpu.winner = (IF WakeStrictlyLower("cpu_percent") THEN "Wake" ELSE "Stern")
    /\ report.memory.winner = (IF WakeStrictlyLower("memory_mb") THEN "Wake" ELSE "Stern")

\* A tie on CPU between two tools that both have rows, and Stern is named.
C2_Witness ==
  /\ ReportWritten
  /\ OfTool("wake") # {}
  /\ OfTool("stern") # {}
  /\ SetSum(OfTool("wake"), "cpu_percent") * Cardinality(OfTool("stern"))
       = SetSum(OfTool("stern"), "cpu_percent") * Cardinality(OfTool("wake"))
  /\ report.cpu.winner = "Stern"
  /\ report.memory.winner = "Wake"

\* C3: with a missing CSV file main exits with status 1 straight from the
\* existence check: it never reaches os.makedirs or a later stage, no output
\* file is written and the output directory is not created.
C3_MissingFileExitsBeforeOutput ==
  /\ csv = "missing" => pc \in {"start", "exited"}
  /\ (csv = "missing" /\ pc = "exited") =>
       /\ exit_status = 1
       /\ failed = "exists"
       /\ files = <<>>
       /\ ~made_dir
  /\ failed = "exists" => csv = "missing"

C3_Witness ==
  /\ csv = "missing"
  /\ pc = "exited"
  /\ ~dir_exists

\* C4 as stated: when the CSV file exists but cannot be loaded the process
\* exits with status 1 having created nothing in the output location: no
\* file and no newly created output directory.
C4_LoadFailureLeavesNothing ==
  failed = "load" =>
    /\ exit_status = 1
    /\ files = <<>>
    /\ ~made_dir

C6_UnrecognizedDroppedEverywhere ==
  /\ CpuChartDrawn =>
       /\ \A k \in DOMAIN cpu_chart.avg : k[2] \in Known
       /\ \A k \in DOMAIN cpu_chart.max : k[2] \in Known
  /\ MemChartDrawn =>
       /\ \A k \in DOMAIN mem_chart.avg : k[2] \in Known
       /\ \A k \in DOMAIN mem_chart.max : k[2] \in Known
  /\ SummaryBuilt =>
       \A k \in 1..Len(summary_data) : summary_data[k].tool \in Known
  /\ ReportWritten =>
       \A k \in 1..Len(report.overall) :
         report.overall[k].tool \in {Title(l) : l \in Known}

\* C7: the files written are always an initial part of the fixed sequence
\* cpu_comparison.png, memory_comparison.png, performance_summary.png,
\* detailed_analysis.md; a run that failed at a step has written nothing of
\* the later steps; exit status 0 comes only with all four written.
C7_FixedSequenceOrAbort ==
  /\ \E n \in 0..Len(Artifacts) : files = SubSeq(Artifacts, 1, n)
  /\ (pc = "exited" /\ exit_status = 0) => files = Artifacts
  /\ pc = "exited" => (exit_status = 0 <=> failed = "")
  /\ failed \in {"exists", "makedirs", "load", "cpu"} => files = <<>>
  /\ failed = "mem" => Len(files) = 1
  /\ failed = "summary" => Len(files) = 2
  /\ failed = "report" => Len(files) \in {3, 4}
  /\ failed # "" => pc = "exited" /\ exit_status = 1

C7_Witness ==
  /\ pc = "exited"
  /\ failed = "summary"
  /\ files = SubSeq(Artifacts, 1, 2)
  /\ df # <<>>

\* C8: each row of summary_data carries the mean and the maximum of
\* cpu_percent and memory_mb over exactly the samples of its pair, and its
\* performance_score is avg_cpu + avg_memory / 10.
C8_ScoreIsCpuPlusTenthOfMemory ==
  SummaryBuilt =>
    \A k \in 1..Len(summary_data) :
      LET row == summary_data[k]
          M == Matching(row.scenario, row.tool)
      IN  /\ M # {}
          /\ RatEq(row.avg_cpu, SetMean(M, "cpu_percent"))
          /\ RatEq(row.avg_memory, SetMean(M, "memory_mb"))
          /\ row.max_cpu = SetMax(M, "cpu_percent")
          /\ row.max_memory = SetMax(M, "memory_mb")
          /\ RatEq(row.performance_score,
                   [num |-> 10 * SetSum(M, "cpu_percent") + SetSum(M, "memory_mb"),
                    den |-> 10 * Cardinality(M)])

\* A row over two samples whose means are not integers.
C8_Witness ==
  /\ SummaryBuilt
  /\ \E k \in 1..Len(summary_data) :
       LET M == Matching(summary_data[k].scenario, summary_data[k].tool)
       IN  /\ Cardinality(M) = 2
           /\ SetSum(M, "cpu_percent") % 2 = 1
           /\ SetSum(M, "memory_mb") % 2 = 1
           /\ Unrecognized # {}

\* C9: of two rows of summary_data the earlier one has the scenario seen
\* first in the table or, the scenario being the same, is the wake row
\* before the stern row.
C9_FirstSeenThenToolOrder ==
  SummaryBuilt =>
    \A i, j \in 1..Len(summary_data) :
      i < j =>
        \/ FirstSeen(summary_data[i].scenario) < FirstSeen(summary_data[j].scenario)
        \/ /\ summary_data[i].scenario = summary_data[j].scenario
           /\ summary_data[i].tool = "wake"
           /\ summary_data[j].tool = "stern"

\* The table has stern before wake and "warm" before "cold".
C9_Witness ==
  /\ SummaryBuilt
  /\ Len(summary_data) = 3
  /\ df[1].scenario = "warm"
  /\ df[1].tool = "stern"
  /\ df[2].tool = "wake"
  /\ df[3].scenario = "cold"
  /\ summary_data[1].tool = "wake"

\* The line the report prints for a row of summary_data.
ReportLine(row) ==
  [tool |-> Title(row.tool),
   avg_cpu |-> Fmt(row.avg_cpu, 100),
   max_cpu |-> Fmt(Rat(row.max_cpu), 100),
   avg_mem |-> Fmt(row.avg_memory, 100),
   max_mem |-> Fmt(Rat(row.max_memory), 100),
   count |-> Cardinality(Matching(row.scenario, row.tool))]

\* C10: the report's breakdown has one subsection per distinct scenario, in
\* first-seen order, and the lines of a subsection are the rows of
\* summary_data for that scenario, each with the values of the row as
\* printed and the number of samples of its pair.
C10_BreakdownAgreesWithSummary ==
  ReportWritten =>
    /\ Len(report.breakdown) = Cardinality(ScenariosPresent)
    /\ \A s \in ScenariosPresent :
         LET section == report.breakdown[Rank(s)]
             rows == SelectSeq(summary_data, LAMBDA r : r.scenario = s)
         IN  /\ section.heading = Title(s)
             /\ Len(section.rows) = Len(rows)
             /\ \A k \in 1..Len(rows) : section.rows[k] = ReportLine(rows[k])

C10_Witness ==
  /\ ReportWritten
  /\ Len(report.breakdown) = 2
  /\ Len(report.breakdown[1].rows) = 2
  /\ Len(report.breakdown[2].rows) = 1
  /\ Unrecognized = {}

====
